---------------------------- MODULE Spec2Model ----------------------------
(***************************************************************************)
(* The browser-side orchestration layer of the czisch_n8n_api control      *)
(* panel: the hooks useScraping, useOrders, useCalls and the Home          *)
(* component that wires them to one credential (apiKey).                   *)
(*                                                                         *)
(* JavaScript runs the handlers on one event loop: a handler runs from an  *)
(* event (a click, a timer, a response) to its next await without          *)
(* interleaving, so every action below is one such run-to-await step.  A   *)
(* callback created by useCallback reads the values of the render that     *)
(* created it; an invocation therefore carries the apiKey, currentPage,    *)
(* scrapeUrl ... it captured when it was called, however the state moves   *)
(* while it is suspended.                                                  *)
(*                                                                         *)
(* One specification per component of the layer:                           *)
(*   SpecScrape  the Workflow Orchestrator   (runScrape, pollWorkflowStatus)*)
(*   SpecConfig  the Debounced Config Synchronizer (load, edit, save)      *)
(*   SpecStore   the Resource Stores         (useOrders, useCalls)         *)
(*   SpecSched   the Schedule Coordinator    (useSchedules)                *)
(*   SpecToast   the Notification Bus        (ToastProvider)               *)
(*   SpecHome    the Composition Root        (Home's effect on apiKey)     *)
(*   SpecUpload  the uploads of the Orders store                           *)
(*   SpecNormalize  saveUrlToBackend as a function of the draft            *)
(* Each runs its component against every credential change, request       *)
(* outcome and response order; the variables of the other components keep *)
(* their initial values.                                                   *)
(***************************************************************************)
EXTENDS Integers, Sequences, FiniteSets, TLC

(***************************************************************************)
(* Bounds of the model                                                     *)
(***************************************************************************)
\* runScrape invocations explored in one behaviour
MaxRuns == 2
\* largest processed_count / failed_count a workflow result reports
MaxCount == 2
\* largest skipped_orders a workflow result reports
MaxSkipped == 1
\* edits of the locator explored in one behaviour
MaxEdits == 3
\* credential changes explored in one behaviour of the synchronizer
MaxKeyChanges == 1
\* the clock advances in steps of at most StepMs milliseconds
StepMs == 200
\* the orders and the calls the server holds when it holds any
NumOrders == 11
NumCalls == 11
\* largest number of converted orders on one page
MaxConverted == 1
\* user actions on the stores explored in one behaviour
MaxClicks == 3
MaxSchedClicks == 3
\* handler runs that push toasts explored in one behaviour
MaxShows == 3
\* longest draft, in pieces, that saveUrlToBackend is applied to
MaxLen == 4
\* the most toasts the queue is let grow to
MaxQueue == 1002
\* the clock of the toast queue advances in steps of at most ToastStepMs
ToastStepMs == 2000

(***************************************************************************)
(* Program constants                                                       *)
(***************************************************************************)
\* useScraping.ts:83
maxAttempts == 120
\* useScraping.ts:101
PollIntervalMs == 5000
\* useOrders.ts:8, OrdersTable.tsx:154
PAGE_SIZE == 10
\* ToastContext.tsx:27, the life of a toast in milliseconds
ToastLifeMs == 4000
\* ToastContext.tsx:23, Date.now() * 1000
IdsPerMs == 1000
\* ToastContext.tsx:23, toastCounterRef.current++ % 1000
CounterModulus == 1000
\* useScraping.ts:70, the settle window in milliseconds
SaveDelayMs == 1000

\* A string is a sequence of pieces; " " is white space.  The default
\* locator is one piece holding the literal of useScraping.ts:8.
DEFAULT_SCRAPE_URL ==
    <<"https://hapodu.duisburg.de/risource/do/order/list/editable?initSearch=true&reset=false">>

\* the credentials the user types into the header; "" is the empty one
Keys == {"", "key-A", "key-B"}

\* currentWorkflowId = null
NoWorkflow == "null"
WorkflowIds == {"wf-1"}

\* the drafts of the locator the orchestrator can find
Urls == { DEFAULT_SCRAPE_URL, <<" ">>, <<>> }

\* the values the user types into the locator field
EditUrls == { DEFAULT_SCRAPE_URL, <<"u1", " ">>, <<" ">> }

\* custom_order_list_url as the server stores it; <<>> is null
SavedUrls == { <<>>, <<"saved">> }

(***************************************************************************)
(* String.prototype.trim, toLowerCase and number formatting                *)
(***************************************************************************)
RECURSIVE TrimLeft(_)
TrimLeft(s) == IF s # <<>> /\ Head(s) = " " THEN TrimLeft(Tail(s)) ELSE s

RECURSIVE TrimRight(_)
TrimRight(s) ==
    IF s # <<>> /\ s[Len(s)] = " " THEN TrimRight(SubSeq(s, 1, Len(s) - 1)) ELSE s

NoTrim(s) == s
Trim(s) == TrimRight(TrimLeft(s))

ToLowerCase(s) ==
    CASE s = "RUNNING"    -> "running"
      [] s = "COMPLETED"  -> "completed"
      [] s = "FAILED"     -> "failed"
      [] s = "CANCELED"   -> "canceled"
      [] s = "TERMINATED" -> "terminated"
      [] s = "TIMED_OUT"  -> "timed_out"
      [] s = "NOT_FOUND"  -> "not_found"
      [] OTHER            -> s

\* a number inside a template literal
NumStr(n) == <<"0", "1", "2", "3", "4", "5", "6", "7", "8", "9">>[n + 1]

\* a || b on strings: "" stands for the empty string and for undefined,
\* which || treats alike
OrElse(a, b) == IF a # "" THEN a ELSE b

(***************************************************************************)
(* State                                                                   *)
(***************************************************************************)
VARIABLES
    apiKey,             \* Home: useState("")
    clientKey,          \* apiClient.apiKey, the key the request header carries
    lastRequest,        \* history: the request issued last
    toastLog,           \* history: the toasts of the handler run that acted last
    \* ---- useScraping: orchestrator
    scrapeStatus,
    scrapeResult,       \* <<>> is null, <<r>> a result
    scrapeUrl,
    currentWorkflowId,
    run,                \* the latest runScrape invocation
    nRuns,              \* history: runScrape invocations so far
    \* ---- useScraping: config synchronizer
    timers,             \* the pending setTimeout calls of handleScrapeUrlChange
    saveTimeoutRef,     \* saveTimeoutRef.current: a timer id, 0 is null
    net,                \* the requests of the synchronizer in flight
    saves,              \* the saveUrlToBackend invocations that issued a request
    nEdits,             \* history: handleScrapeUrlChange calls so far
    nKeyChanges,        \* history: credential changes so far
    draftSource,        \* history: what set scrapeUrl last
    burst,              \* history: the burst of edits whose timer is pending
    settled,            \* history: the burst whose timer fired last
    \* ---- useOrders
    orders,             \* the page held: <<>> or <<p>>, p the items of one page
    ordersTotal,
    ordersStatus,
    currentPage,
    pendingUploads,
    \* ---- useCalls
    calls,
    callsTotal,
    callsStatus,
    callsPage,
    \* ---- the requests of the stores in flight, with what their closures hold
    storeNet,
    nReq,               \* history: requests of the stores so far
    nClicks,            \* history: user actions on the stores so far
    \* ---- useSchedules
    schedules,
    scheduleActive,
    scheduleStatus,
    statusTimers,       \* the pending setTimeout calls of addSchedule
    schedNet,           \* the requests of the coordinator in flight
    lastReply,          \* history: the response a store or the coordinator
                        \* received in this step
    nSchedReq,          \* history: requests of the coordinator so far
    nSchedClicks,       \* history: user actions on the coordinator so far
    \* ---- ToastProvider
    toasts,             \* the queue; seq and at are history: the number of the
                        \* showToast call and the time of the push
    toastCounterRef,
    clock,              \* Date.now()
    removals,           \* the pending setTimeout calls of showToast
    nShows,             \* history: handler runs that pushed toasts so far
    \* ---- saveUrlToBackend as a function of the settled draft
    draft,
    payload,            \* <<>>: not sent yet, <<p>>: the body of the persist request
    \* ---- useOrders: uploads
    uploadAllStatus,
    uploadTimers,       \* the pending setTimeout calls of the upload handlers
    \* ---- useScraping: pending conversions
    pendingCount

commonVars == <<apiKey, clientKey, lastRequest, toastLog>>
scrapeVars == <<scrapeStatus, scrapeResult, scrapeUrl, currentWorkflowId, run, nRuns>>
configVars ==
    <<timers, saveTimeoutRef, net, saves, nEdits, nKeyChanges, draftSource, burst, settled>>
ordersVars == <<orders, ordersTotal, ordersStatus, currentPage, pendingUploads>>
callsVars == <<calls, callsTotal, callsStatus, callsPage>>
storeVars == <<ordersVars, callsVars, storeNet, nReq, nClicks>>
schedState ==
    <<schedules, scheduleActive, scheduleStatus, statusTimers, schedNet, nSchedReq,
      nSchedClicks>>
schedVars == <<schedState, lastReply>>
toastVars == <<toasts, toastCounterRef, clock, removals, nShows>>
normVars == <<draft, payload>>
uploadVars == <<uploadAllStatus, uploadTimers>>
extraVars == <<toastVars, normVars, uploadVars, pendingCount>>
vars == <<commonVars, scrapeVars, configVars, storeVars, schedVars, extraVars>>

(***************************************************************************)
(* Requests and the notification bus                                       *)
(***************************************************************************)
NoRequest == [op |-> "none", header |-> "", credential |-> ""]

\* ApiClient.request: the request carries the client's key; the history
\* also keeps the credential Home holds at that moment
Request(op, key) == [op |-> op, header |-> key, credential |-> apiKey]

Toast(message, type) == [message |-> message, type |-> type]

\* showToast appends one toast
showToastTwice(log, message, type) ==
    Append(Append(log, Toast(message, type)), Toast(message, type))
showToast(log, message, type) == Append(log, Toast(message, type))

ErrorToasts(log) == SelectSeq(log, LAMBDA t : t.type = "error")
SuccessToasts(log) == SelectSeq(log, LAMBDA t : t.type = "success")

\* a request of a store in flight: key and page are what the closure of the
\* handler that issued it holds (apiKey and currentPage of its render)
StoreRequest(op, id, key, page) == [op |-> op, id |-> id, key |-> key, page |-> page]

\* apiClient.setApiKey(key) and the requests ops = <<op, page>>, ... sent
\* under it, with pending the requests that stay in flight
Issue(pending, key, ops) ==
    /\ clientKey' = key
    /\ storeNet' = pending \cup
                     {StoreRequest(ops[i][1], nReq + i, key, ops[i][2]) : i \in 1..Len(ops)}
    /\ nReq' = nReq + Len(ops)
    /\ lastRequest' = [op |-> ops[Len(ops)][1], header |-> key, credential |-> apiKey']

\* fetchOrders(page) of a render whose apiKey is key, up to its await (32-37)
fetchOrders(pending, key, page) ==
    IF key = ""
    THEN /\ storeNet' = pending
         /\ UNCHANGED <<ordersStatus, clientKey, lastRequest, nReq>>
    ELSE /\ ordersStatus' = "loading"
         /\ Issue(pending, key, <<<<"getOrders", page>>>>)

\* the items of one page, as the server cuts them: skip = page * PAGE_SIZE,
\* limit = PAGE_SIZE; count is the number of items
PageOf(key, page, total, converted) ==
    IF page * PAGE_SIZE < total
    THEN <<[owner |-> key, page |-> page, converted |-> converted,
            count |-> IF total - page * PAGE_SIZE < PAGE_SIZE
                      THEN total - page * PAGE_SIZE ELSE PAGE_SIZE]>>
    ELSE <<>>

\* items.length
Length(items) == IF items = <<>> THEN 0 ELSE items[1].count

\* Home.handleScrapeComplete (ToastContext.tsx 76-81) of a render whose
\* apiKey is key: orders.goToPage(0) of that render
handleScrapeCompleteStays(key) ==
    /\ fetchOrders(storeNet, key, currentPage)
    /\ UNCHANGED <<currentPage, orders, ordersTotal, pendingUploads, callsVars, nClicks, schedVars, extraVars>>
handleScrapeComplete(key) ==
    /\ currentPage' = 0
    /\ fetchOrders(storeNet, key, 0)
    /\ UNCHANGED <<orders, ordersTotal, pendingUploads, callsVars, nClicks, schedVars, extraVars>>

(***************************************************************************)
(* Workflow Orchestrator: what the server can answer                       *)
(***************************************************************************)
Results ==
    [processed_count : 0..MaxCount, skipped_orders : 0..MaxSkipped,
     failed_count : 0..MaxCount]

FailureStatuses == {"FAILED", "CANCELED", "TERMINATED"}
PendingStatuses == {"RUNNING", "NOT_FOUND", "TIMED_OUT"}

\* the body of a status response; fields the loop never reads are left out
StatusData ==
         [status : {"COMPLETED"}, result : {<<>>} \cup {<<r>> : r \in Results}, error : {""}]
    \cup [status : FailureStatuses, result : {<<>>}, error : {"", "boom"}]
    \cup [status : PendingStatuses, result : {<<>>}, error : {""}]

\* ApiClient.request returns {data} or {error}; a null body is data = null
StatusReplies ==
         [data : {<<d>> : d \in StatusData}, error : {""}]
    \cup [data : {<<>>}, error : {"", "Network error"}]

StartReplies ==
         [data : {<<id>> : id \in WorkflowIds}, error : {""}]
    \cup [data : {<<>>}, error : {"", "Network error"}]

NoRun ==
    [pc |-> "none", key |-> "", url |-> <<>>, wf |-> NoWorkflow, attempts |-> 0,
     polls |-> 0, replies |-> 0, callbacks |-> 0, onlyRunning |-> TRUE,
     last |-> <<>>, waited |-> 0]

(***************************************************************************)
(* pollWorkflowStatus                                                      *)
(***************************************************************************)
\* while (attempts < maxAttempts)
LoopContinuesOffByOne(attempts) == attempts <= maxAttempts
LoopContinues(attempts) == attempts < maxAttempts

\* data.status === "FAILED" || ... "CANCELED" || ... "TERMINATED"
IsFailureStatusNarrow(status) == status = "FAILED"
IsFailureStatusOrTimedOut(status) == status \in FailureStatuses \cup {"TIMED_OUT"}
IsFailureStatus(status) == status \in FailureStatuses

\* new Error(data.error || `Workflow ${data.status.toLowerCase()}`).message
FailureMessage(d) ==
    IF d.error # "" THEN <<d.error>> ELSE <<"Workflow ", ToLowerCase(d.status)>>

\* the toast of a completed workflow with a result
DoneToast(r) ==
    IF r.failed_count > 0
    THEN Toast(<<"Done: ", NumStr(r.processed_count), " processed, ",
                 NumStr(r.skipped_orders), " skipped, ",
                 NumStr(r.failed_count), " failed">>, "error")
    ELSE Toast(<<"Done: ", NumStr(r.processed_count), " processed, ",
                 NumStr(r.skipped_orders), " skipped">>, "success")

\* runScrape's catch block and the line after it (162-167): the poll of
\* invocation r threw `message`; log holds the toasts pushed so far
ScrapeRejectedKeepsHandle(r, log, message) ==
    /\ scrapeStatus' = "error"
    /\ toastLog' = showToast(log, message, "error")
    /\ currentWorkflowId' = r.wf
    /\ UNCHANGED <<scrapeResult, lastRequest, clientKey, storeVars, schedVars, extraVars>>
    /\ run' = [r EXCEPT !.pc = "done"]
ScrapeRejected(r, log, message) ==
    /\ scrapeStatus' = "error"
    /\ toastLog' = showToast(log, message, "error")
    /\ currentWorkflowId' = NoWorkflow
    /\ UNCHANGED <<scrapeResult, lastRequest, clientKey, storeVars, schedVars, extraVars>>
    /\ run' = [r EXCEPT !.pc = "done"]

\* runScrape after the poll of invocation r resolved with `result` (136-161,
\* 167); <<>> is null.  onScrapeComplete is Home's handleScrapeComplete of
\* the render that created this runScrape
ScrapeResolved(r, log, result) ==
    /\ scrapeStatus' = "success"
    /\ currentWorkflowId' = NoWorkflow
    /\ IF result # <<>>
       THEN /\ scrapeResult' = result
            /\ toastLog' = Append(log, DoneToast(result[1]))
       ELSE /\ UNCHANGED scrapeResult
            /\ toastLog' = showToast(log, <<"Workflow completed">>, "success")
    /\ handleScrapeComplete(r.key)
    /\ run' = [r EXCEPT !.pc = "done", !.callbacks = @ + 1]

\* the head of the while loop (86-87, 105) for invocation r: the next status
\* request, with the handle still shown, or the timeout
PollStep(r, log, handle) ==
    IF LoopContinues(r.attempts)
    THEN /\ lastRequest' = Request("getWorkflowStatus", clientKey)
         /\ run' = [r EXCEPT !.pc = "poll", !.polls = @ + 1]
         /\ toastLog' = log
         /\ currentWorkflowId' = handle
         /\ UNCHANGED <<scrapeStatus, scrapeResult>>
    ELSE ScrapeRejected(r, log, <<"Workflow timed out">>)

(***************************************************************************)
(* Workflow Orchestrator: the actions                                      *)
(***************************************************************************)
\* ScrapingSection: the scrape button, disabled={!apiKey || scrapeStatus === "loading"}
ScrapeButtonIgnoresLoading == apiKey # ""
ScrapeButtonEnabled == apiKey # "" /\ scrapeStatus # "loading"

\* runScrape up to its first await (108-122)
runScrape ==
    /\ nRuns < MaxRuns
    /\ nRuns' = nRuns + 1
    /\ UNCHANGED <<apiKey, scrapeUrl, configVars, storeVars, schedVars, extraVars>>
    /\ IF apiKey = ""
       THEN /\ toastLog' = showToast(<<>>, <<"API key required">>, "error")
            /\ run' = [NoRun EXCEPT !.pc = "rejected"]
            /\ UNCHANGED <<scrapeStatus, scrapeResult, currentWorkflowId,
                           clientKey, lastRequest>>
       ELSE IF Trim(scrapeUrl) = <<>>
       THEN /\ toastLog' = showToast(<<>>, <<"Order list URL required">>, "error")
            /\ run' = [NoRun EXCEPT !.pc = "rejected"]
            /\ UNCHANGED <<scrapeStatus, scrapeResult, currentWorkflowId,
                           clientKey, lastRequest>>
       ELSE /\ scrapeStatus' = "loading"
            /\ scrapeResult' = <<>>
            /\ currentWorkflowId' = NoWorkflow
            /\ clientKey' = apiKey
            /\ lastRequest' = Request("scrapeOrders", apiKey)
            /\ toastLog' = <<>>
            /\ run' = [NoRun EXCEPT !.pc = "start", !.key = apiKey, !.url = scrapeUrl]

\* the user clicks the scrape button
ClickScrape == ScrapeButtonEnabled /\ runScrape

\* the start request returns (122-134)
StartResponse ==
    /\ run.pc = "start"
    /\ \E reply \in StartReplies :
         IF reply.data = <<>>
         THEN /\ scrapeStatus' = "error"
              /\ toastLog' = showToast(toastLog,
                     <<OrElse(reply.error, "Failed to start scraping")>>, "error")
              /\ run' = [run EXCEPT !.pc = "done"]
              /\ UNCHANGED <<scrapeResult, currentWorkflowId, lastRequest>>
         ELSE PollStep([run EXCEPT !.wf = reply.data[1]],
                       showToast(toastLog, <<"Workflow started - please wait...">>, "success"),
                       reply.data[1])
    /\ UNCHANGED <<apiKey, clientKey, scrapeUrl, nRuns, configVars, storeVars, schedVars, extraVars>>

\* a status request returns (87-101)
StatusResponse ==
    /\ run.pc = "poll"
    /\ UNCHANGED <<apiKey, scrapeUrl, nRuns, configVars>>
    /\ \E reply \in StatusReplies :
         LET r == [run EXCEPT !.replies = @ + 1,
                              !.last = reply.data,
                              !.onlyRunning = @ /\ reply.data # <<>>
                                                /\ reply.data[1].status = "RUNNING"]
         IN IF reply.error # "" \/ reply.data = <<>>
            THEN ScrapeRejected(r, toastLog,
                                <<OrElse(reply.error, "Failed to get workflow status")>>)
            ELSE LET d == reply.data[1]
                 IN IF d.status = "COMPLETED"
                    THEN ScrapeResolved(r, toastLog, d.result)
                    ELSE IF IsFailureStatus(d.status)
                    THEN ScrapeRejected(r, toastLog, FailureMessage(d))
                    ELSE /\ run' = [r EXCEPT !.pc = "sleep"]
                         /\ UNCHANGED <<scrapeStatus, scrapeResult, currentWorkflowId,
                                        toastLog, lastRequest, clientKey, storeVars, schedVars, extraVars>>

\* the 5000 ms timer of line 101 fires: attempts++ and the loop head
PollTimer ==
    /\ run.pc = "sleep"
    /\ PollStep([run EXCEPT !.attempts = @ + 1, !.waited = @ + PollIntervalMs],
                toastLog, currentWorkflowId)
    /\ UNCHANGED <<apiKey, clientKey, scrapeUrl, nRuns, configVars, storeVars, schedVars, extraVars>>

\* Header: the user types another credential (Home's setApiKey)
SetApiKeyScrape ==
    /\ \E k \in Keys \ {apiKey} : apiKey' = k
    /\ UNCHANGED <<clientKey, lastRequest, toastLog, scrapeVars, configVars, storeVars, schedVars, extraVars>>

InitCommon ==
    /\ apiKey = ""
    /\ clientKey = ""
    /\ lastRequest = NoRequest
    /\ toastLog = <<>>

NoBurst == [edits |-> 0, url |-> <<>>, key |-> "", since |-> 0, maxGap |-> 0]

InitConfigVars ==
    /\ timers = {}
    /\ saveTimeoutRef = 0
    /\ net = {}
    /\ saves = <<>>
    /\ nEdits = 0
    /\ nKeyChanges = 0
    /\ draftSource = "initial"
    /\ burst = NoBurst
    /\ settled = [edits |-> 0, persists |-> 0]

InitStoreVars ==
    /\ orders = <<>>
    /\ ordersTotal = 0
    /\ ordersStatus = "idle"
    /\ currentPage = 0
    /\ pendingUploads = 0
    /\ calls = <<>>
    /\ callsTotal = 0
    /\ callsStatus = "idle"
    /\ callsPage = 0
    /\ storeNet = {}
    /\ nReq = 0
    /\ nClicks = 0

NoReply == [op |-> "none", ok |-> TRUE]

\* the response of request m, received in this step
Received(m, reply) == [op |-> m.op, ok |-> reply.data # <<>>]

InitSchedState ==
    /\ schedules = <<>>
    /\ scheduleActive = FALSE
    /\ scheduleStatus = "idle"
    /\ statusTimers = 0
    /\ schedNet = {}
    /\ nSchedReq = 0
    /\ nSchedClicks = 0

InitSchedVars ==
    /\ InitSchedState
    /\ lastReply = NoReply

InitToastVars ==
    /\ toasts = <<>>
    /\ toastCounterRef = 0
    /\ clock = 0
    /\ removals = {}
    /\ nShows = 0

InitExtraVars ==
    /\ InitToastVars
    /\ draft = <<>>
    /\ payload = <<>>
    /\ uploadAllStatus = "idle"
    /\ uploadTimers = {}
    /\ pendingCount = 0

InitScrapeVars ==
    /\ scrapeStatus = "idle"
    /\ scrapeResult = <<>>
    /\ scrapeUrl = DEFAULT_SCRAPE_URL
    /\ currentWorkflowId = NoWorkflow
    /\ run = NoRun
    /\ nRuns = 0

\* a session in which the user has typed key-A and paged the orders forward:
\* page 1 of 2 is on display, the calls list is empty, no request in flight
Browsed ==
    /\ apiKey = "key-A"
    /\ clientKey = "key-A"
    /\ lastRequest = [op |-> "getOrders", header |-> "key-A", credential |-> "key-A"]
    /\ toastLog = <<>>
    /\ orders = PageOf("key-A", 1, NumOrders, 0)
    /\ ordersTotal = NumOrders
    /\ ordersStatus = "success"
    /\ currentPage = 1
    /\ pendingUploads = 0
    /\ calls = <<>>
    /\ callsTotal = 0
    /\ callsStatus = "success"
    /\ callsPage = 0
    /\ storeNet = {}
    /\ nReq = 3
    /\ nClicks = 2
    /\ lastReply = [op |-> "getOrders", ok |-> TRUE]

\* the orchestrator starts in a fresh page or in a session already browsed
InitScrape ==
    /\ \/ InitCommon /\ InitStoreVars /\ lastReply = NoReply
       \/ Browsed
    /\ InitConfigVars
    /\ InitSchedState
    /\ InitExtraVars
    /\ scrapeStatus = "idle"
    /\ scrapeResult = <<>>
    /\ scrapeUrl \in Urls
    /\ currentWorkflowId = NoWorkflow
    /\ run = NoRun
    /\ nRuns = 0

NextScrape ==
    \/ SetApiKeyScrape
    \/ ClickScrape
    \/ StartResponse
    \/ StatusResponse
    \/ PollTimer

SpecScrape == InitScrape /\ [][NextScrape]_vars

(***************************************************************************)
(* Workflow Orchestrator: the claims                                       *)
(***************************************************************************)
\* the latest invocation started a workflow and has settled
Settled == run.pc = "done" /\ run.wf # NoWorkflow

TimeoutToast == Toast(<<"Workflow timed out">>, "error")

\* C2: a workflow whose every status response is RUNNING is asked for its
\* status exactly 120 times, never more, and then runScrape settles with
\* scrapeStatus = error, one error toast carrying the timeout message, the
\* handle cleared and the completion callback not invoked.
PollTerminationBound ==
    /\ run.polls <= 120
    /\ (Settled /\ run.onlyRunning) =>
          /\ run.polls = 120
          /\ run.replies = 120
          /\ scrapeStatus = "error"
          /\ ErrorToasts(toastLog) = <<TimeoutToast>>
          /\ currentWorkflowId = NoWorkflow
          /\ run.callbacks = 0

PollTimedOutReached ==
    Settled /\ run.onlyRunning /\ run.polls = 120 /\ scrapeStatus = "error"

\* C3: a COMPLETED workflow whose result has processed_count > 0 and
\* failed_count > 0 ends with a success toast and no error toast,
\* scrapeStatus = success and the completion callback invoked.
PartialResultIsSuccess ==
    (/\ Settled
     /\ run.last # <<>>
     /\ run.last[1].status = "COMPLETED"
     /\ run.last[1].result # <<>>
     /\ run.last[1].result[1].processed_count > 0
     /\ run.last[1].result[1].failed_count > 0)
    => /\ ErrorToasts(toastLog) = <<>>
       /\ toastLog[Len(toastLog)].type = "success"
       /\ scrapeStatus = "success"
       /\ run.callbacks = 1

\* C5: no request is issued while the credential Home holds is empty.
NoRequestWithoutCredential ==
    lastRequest.op # "none" => lastRequest.credential # ""

\* C9: when runScrape settles, by COMPLETED, by FAILED / CANCELED /
\* TERMINATED, by a failed status request or by timeout, currentWorkflowId is
\* null, and the completion callback has been invoked exactly once if the
\* outcome is success and not at all if it is a failure (nor before the
\* settlement).
SettlementClearsHandle ==
    /\ run.pc = "done" =>
          /\ currentWorkflowId = NoWorkflow
          /\ scrapeStatus \in {"success", "error"}
          /\ run.callbacks = IF scrapeStatus = "success" THEN 1 ELSE 0
    /\ run.pc # "done" => run.callbacks = 0

SettledSuccessReached ==
    /\ Settled
    /\ run.polls >= 2
    /\ scrapeStatus = "success"
    /\ run.callbacks = 1
    /\ nRuns = 2

\* the message the claim expects for a failure status: the server's error
\* string if there is one, else a generic one naming the status
ExpectedFailureText(d) ==
    IF d.error # ""
    THEN <<d.error>>
    ELSE CASE d.status = "FAILED"     -> <<"Workflow ", "failed">>
           [] d.status = "CANCELED"   -> <<"Workflow ", "canceled">>
           [] d.status = "TERMINATED" -> <<"Workflow ", "terminated">>

\* C10: a status response FAILED, CANCELED or TERMINATED ends the poll loop
\* in that step: no further status request is issued for the workflow, the
\* outcome is an error, and exactly one error toast is pushed, carrying the
\* server's error string if it supplied one and else the generic message
\* naming the status.
FailureStatusStopsPoll ==
    /\ [][ (/\ run.pc = "poll"
            /\ run'.replies = run.replies + 1
            /\ run'.last # <<>>
            /\ run'.last[1].status \in {"FAILED", "CANCELED", "TERMINATED"})
           => /\ run'.pc = "done"
              /\ run'.polls = run.polls
              /\ lastRequest' = lastRequest
              /\ scrapeStatus' = "error"
              /\ toastLog' = Append(toastLog,
                                    Toast(ExpectedFailureText(run'.last[1]), "error"))
              /\ run'.callbacks = 0 ]_vars
    /\ [][ (run.pc = "done" /\ run'.pc = "done") => run'.polls = run.polls ]_vars

FailureStatusReached ==
    /\ Settled
    /\ run.polls >= 2
    /\ run.last # <<>>
    /\ run.last[1].status = "CANCELED"
    /\ run.last[1].error = ""
    /\ scrapeStatus = "error"

\* the status response handled last named a status that is neither
\* COMPLETED nor FAILED, CANCELED or TERMINATED
LastPending == run.last # <<>> /\ run.last[1].status \in PendingStatuses

\* C11: a status response naming RUNNING, NOT_FOUND or TIMED_OUT does not
\* settle runScrape: the loop sleeps with scrapeStatus loading and the handle
\* shown, and while the attempts are below 120 the next status request follows
\* after exactly one interval of 5000 ms; only the 120th such response ends in
\* the timeout
PendingStatusKeepsPolling ==
    LastPending =>
        \/ /\ run.pc = "sleep"
           /\ run.replies = run.polls
           /\ run.attempts = run.polls - 1
           /\ run.attempts < maxAttempts
           /\ scrapeStatus = "loading"
           /\ currentWorkflowId = run.wf /\ run.wf # NoWorkflow
        \/ /\ run.pc = "poll"
           /\ run.polls = run.replies + 1
           /\ run.attempts = run.replies
           /\ run.attempts < maxAttempts
           /\ run.waited = PollIntervalMs * run.replies
           /\ scrapeStatus = "loading"
           /\ currentWorkflowId = run.wf /\ run.wf # NoWorkflow
        \/ /\ run.pc = "done"
           /\ run.attempts = maxAttempts
           /\ run.replies = maxAttempts
           /\ toastLog[Len(toastLog)] = TimeoutToast

\* the poll went on after a TIMED_OUT and a NOT_FOUND status
PolledAfterTimedOutReached ==
    /\ run.pc = "poll"
    /\ run.polls = 3
    /\ run.waited = 2 * PollIntervalMs
    /\ LastPending
    /\ run.last[1].status = "TIMED_OUT"
    /\ ~ run.onlyRunning

\* this step settles runScrape with success
ResolveStep == run.pc = "poll" /\ run'.pc = "done" /\ scrapeStatus' = "success"

\* C12: the step in which a scrape completes successfully sets the Orders
\* cursor to 0 and issues exactly one Orders fetch, for page 0, through the
\* one call of the completion callback; no other step of the orchestrator
\* issues an Orders fetch or moves the cursor
OrdersRefreshedOnce ==
    /\ [][ResolveStep =>
            /\ currentPage' = 0
            /\ storeNet \subseteq storeNet'
            /\ storeNet' \ storeNet = {StoreRequest("getOrders", nReq + 1, run.key, 0)}
            /\ nReq' = nReq + 1
            /\ ordersStatus' = "loading"
            /\ run'.callbacks = 1]_vars
    /\ [][~ ResolveStep => UNCHANGED <<storeNet, nReq, currentPage>>]_vars

\* wf-1 answered RUNNING three times and then COMPLETED with 2 processed and
\* none failed, in a session that had page 1 of the orders on display: the
\* cursor is back on 0 and the one fetch of page 0 is in flight
ScrapeRefreshedOrdersReached ==
    /\ Settled
    /\ nRuns = 1
    /\ run.wf = "wf-1"
    /\ run.polls = 4
    /\ scrapeStatus = "success"
    /\ scrapeResult = <<[processed_count |-> 2, skipped_orders |-> 0, failed_count |-> 0]>>
    /\ orders = PageOf("key-A", 1, NumOrders, 0)
    /\ currentPage = 0
    /\ Cardinality(storeNet) = 1
    /\ \A m \in storeNet : m.op = "getOrders" /\ m.page = 0

\* C13: the step in which a scrape completes successfully also issues the
\* request for the pending-conversion count, next to the fetch of Orders
\* page 0
CompletionRefetchesPendingCount ==
    [][ResolveStep =>
         /\ \E m \in storeNet' \ storeNet : m.op = "getOrders" /\ m.page = 0
         /\ \E m \in storeNet' \ storeNet : m.op = "getPendingConversions"]_vars

\* this step is an invocation of runScrape
RunScrapeStep == nRuns' = nRuns + 1

\* the locator holds nothing but whitespace
Blank(url) == \A i \in 1..Len(url) : url[i] = " "

\* this invocation of runScrape is one that must fail fast
MustFailFast == apiKey = "" \/ Blank(scrapeUrl)

InFlight(r) == r.pc \in {"start", "poll", "sleep"}

\* C17: runScrape is never invoked while an earlier invocation has not
\* settled, an invocation is unsettled exactly while scrapeStatus = loading,
\* and the handle exposed is the id of the workflow that invocation polls
SingleWorkflowInFlight ==
    /\ [][RunScrapeStep => ~ InFlight(run) /\ scrapeStatus # "loading"]_vars
    /\ [](InFlight(run) <=> scrapeStatus = "loading")
    /\ [](currentWorkflowId # NoWorkflow =>
             /\ run.pc \in {"poll", "sleep"}
             /\ currentWorkflowId = run.wf)

\* the second scrape of a session is being polled, the first having settled;
\* the button is disabled although the credential is there
SecondScrapePolledReached ==
    /\ nRuns = 2
    /\ run.pc = "poll"
    /\ scrapeStatus = "loading"
    /\ currentWorkflowId = "wf-1"
    /\ apiKey # ""
    /\ ~ ScrapeButtonEnabled

\* C30: a run whose last status request failed (an error or no body) has
\* ended with that response: it issued no status request after it, whatever
\* the attempts left; scrapeStatus is error, the one toast of kind error
\* carries the failure, the handle is cleared and onScrapeComplete was not
\* called
StatusRequestFailureEndsRun ==
    (Settled /\ run.replies > 0 /\ run.last = <<>>) =>
        /\ run.polls = run.replies
        /\ run.attempts < maxAttempts
        /\ scrapeStatus = "error"
        /\ Len(ErrorToasts(toastLog)) = 1
        /\ toastLog[Len(toastLog)].type = "error"
        /\ toastLog[Len(toastLog)].message
               \in {<<"Network error">>, <<"Failed to get workflow status">>}
        /\ currentWorkflowId = NoWorkflow
        /\ run.callbacks = 0

\* the second status request of a run failed without a body, after one
\* attempt of the 120
SecondStatusRequestFailedReached ==
    /\ Settled
    /\ run.last = <<>>
    /\ run.replies = 2
    /\ run.attempts = 1
    /\ scrapeStatus = "error"
    /\ toastLog[Len(toastLog)] = Toast(<<"Failed to get workflow status">>, "error")

(***************************************************************************)
(* Debounced Config Synchronizer (useScraping.ts 25-80)                    *)
(***************************************************************************)
Max(a, b) == IF a >= b THEN a ELSE b

\* url.trim() === DEFAULT_SCRAPE_URL ? null : url.trim() || null  (line 45);
\* <<>> is null, <<s>> the string s
urlToSaveComparesUntrimmed(url) ==
    IF url = DEFAULT_SCRAPE_URL THEN <<>>
    ELSE IF Trim(url) # <<>> THEN <<Trim(url)>> ELSE <<>>
urlToSave(url) ==
    IF Trim(url) = DEFAULT_SCRAPE_URL THEN <<>>
    ELSE IF Trim(url) # <<>> THEN <<Trim(url)>> ELSE <<>>

\* if (saveTimeoutRef.current) clearTimeout(saveTimeoutRef.current)  (64-66)
clearTimeoutForgotten(pending, ref) == pending
clearTimeout(pending, ref) == {t \in pending : t.id # ref}

\* if (error) { showToast("Failed to save URL", "error"); return; }  (48)
PersistFailedIgnored(reply) == FALSE
PersistFailed(reply) == reply.error # ""

\* ApiClient.request for getScrapeConfig: the stored override, or an error
LoadReplies ==
         [data : {<<u>> : u \in SavedUrls}, error : {""}]
    \cup [data : {<<>>}, error : {"Network error"}]

\* ApiClient.request for updateScrapeConfig and syncSchedules
WriteReplies == [error : {"", "Network error"}]

\* a request of the synchronizer in flight
Message(op, id, header, body) == [op |-> op, id |-> id, header |-> header, body |-> body]

\* Header: the user types another credential; the effect on [apiKey] of
\* lines 26-38 runs loadSavedUrl up to its await
SetApiKeyConfig ==
    /\ nKeyChanges < MaxKeyChanges
    /\ nKeyChanges' = nKeyChanges + 1
    /\ \E k \in Keys \ {apiKey} :
         /\ apiKey' = k
         /\ IF k = ""
            THEN UNCHANGED <<clientKey, lastRequest, net>>
            ELSE /\ clientKey' = k
                 /\ lastRequest' = [op |-> "getScrapeConfig", header |-> k,
                                    credential |-> k]
                 /\ net' = net \cup {Message("getScrapeConfig", nKeyChanges + 1, k, <<>>)}
    /\ UNCHANGED <<toastLog, scrapeVars, timers, saveTimeoutRef, saves, nEdits,
                   draftSource, burst, settled>>
    /\ UNCHANGED <<storeVars, schedVars, extraVars>>

\* loadSavedUrl after its await (31-34)
LoadResponse ==
    /\ \E m \in net :
         /\ m.op = "getScrapeConfig"
         /\ net' = net \ {m}
         /\ \E reply \in LoadReplies :
              IF reply.data # <<>> /\ reply.data[1] # <<>>
              THEN /\ scrapeUrl' = reply.data[1]
                   /\ draftSource' = "load"
              ELSE UNCHANGED <<scrapeUrl, draftSource>>
    /\ UNCHANGED <<commonVars, scrapeStatus, scrapeResult, currentWorkflowId, run, nRuns,
                   timers, saveTimeoutRef, saves, nEdits, nKeyChanges, burst, settled>>
    /\ UNCHANGED <<storeVars, schedVars, extraVars>>

\* handleScrapeUrlChange(url) (60-71): the timer keeps the saveUrlToBackend
\* of this render, that is the apiKey of this moment
handleScrapeUrlChange(url) ==
    /\ scrapeUrl' = url
    /\ draftSource' = "edit"
    /\ timers' = clearTimeout(timers, saveTimeoutRef)
                   \cup {[id |-> nEdits + 1, url |-> url, key |-> apiKey,
                          left |-> SaveDelayMs]}
    /\ saveTimeoutRef' = nEdits + 1
    /\ nEdits' = nEdits + 1
    /\ burst' =
         IF \E t \in timers : t.id = saveTimeoutRef
         THEN [burst EXCEPT !.edits = @ + 1, !.url = url, !.key = apiKey,
                            !.maxGap = Max(@, burst.since), !.since = 0]
         ELSE [NoBurst EXCEPT !.edits = 1, !.url = url, !.key = apiKey]
    /\ UNCHANGED <<commonVars, scrapeStatus, scrapeResult, currentWorkflowId, run, nRuns,
                   net, saves, nKeyChanges, settled>>
    /\ UNCHANGED <<storeVars, schedVars, extraVars>>

\* the user types into the locator field
EditUrl ==
    /\ nEdits < MaxEdits
    /\ \E url \in EditUrls : handleScrapeUrlChange(url)

\* time passes, up to the next timer that is due
Advance ==
    /\ timers # {}
    /\ \A t \in timers : t.left > 0
    /\ \E d \in 1..StepMs :
         /\ d = StepMs \/ \E t \in timers : t.left = d
         /\ \A t \in timers : d <= t.left
         /\ timers' = {[t EXCEPT !.left = @ - d] : t \in timers}
         /\ burst' = [burst EXCEPT !.since = @ + d]
    /\ UNCHANGED <<commonVars, scrapeVars, saveTimeoutRef, net, saves, nEdits,
                   nKeyChanges, draftSource, settled>>
    /\ UNCHANGED <<storeVars, schedVars, extraVars>>

\* a timer of line 68 fires: saveUrlToBackend(url) up to its await (41-47)
SaveTimer ==
    /\ \E t \in timers :
         /\ t.left = 0
         /\ timers' = timers \ {t}
         /\ IF t.key = ""
            THEN /\ UNCHANGED <<clientKey, lastRequest, net, saves>>
                 /\ settled' = [edits |-> burst.edits, persists |-> 0]
            ELSE /\ clientKey' = t.key
                 /\ lastRequest' = Request("updateScrapeConfig", t.key)
                 /\ net' = net \cup {Message("updateScrapeConfig", Len(saves) + 1, t.key,
                                             urlToSave(t.url))}
                 /\ saves' = Append(saves,
                        [pc |-> "persist", persist |-> "none", syncs |-> 0,
                         toasts |-> <<>>])
                 /\ settled' = [edits |-> burst.edits, persists |-> 1]
         /\ burst' = IF t.id = saveTimeoutRef THEN NoBurst ELSE burst
    /\ UNCHANGED <<apiKey, toastLog, scrapeVars, saveTimeoutRef, nEdits, nKeyChanges,
                   draftSource>>
    /\ UNCHANGED <<storeVars, schedVars, extraVars>>

\* the persist request of a save returns (47-54)
PersistResponse ==
    /\ \E m \in net :
         /\ m.op = "updateScrapeConfig"
         /\ \E reply \in WriteReplies :
              IF PersistFailed(reply)
              THEN /\ net' = net \ {m}
                   /\ saves' = [saves EXCEPT ![m.id].pc = "done",
                                  ![m.id].persist = "failed",
                                  ![m.id].toasts = showToast(@, <<"Failed to save URL">>, "error")]
                   /\ UNCHANGED lastRequest
              ELSE /\ net' = (net \ {m}) \cup {Message("syncSchedules", m.id, clientKey, <<>>)}
                   /\ lastRequest' = Request("syncSchedules", clientKey)
                   /\ saves' = [saves EXCEPT ![m.id].pc = "sync",
                                  ![m.id].persist = IF reply.error = "" THEN "ok" ELSE "failed",
                                  ![m.id].syncs = @ + 1]
    /\ UNCHANGED <<apiKey, clientKey, toastLog, scrapeVars, timers, saveTimeoutRef,
                   nEdits, nKeyChanges, draftSource, burst, settled>>
    /\ UNCHANGED <<storeVars, schedVars, extraVars>>

\* the sync request of a save returns (54-56); its outcome is not read
SyncResponse ==
    /\ \E m \in net :
         /\ m.op = "syncSchedules"
         /\ net' = net \ {m}
         /\ \E reply \in WriteReplies :
              saves' = [saves EXCEPT ![m.id].pc = "done",
                          ![m.id].toasts = showToast(@, <<"URL saved">>, "success")]
    /\ UNCHANGED <<commonVars, scrapeVars, timers, saveTimeoutRef, nEdits, nKeyChanges,
                   draftSource, burst, settled>>
    /\ UNCHANGED <<storeVars, schedVars, extraVars>>

InitConfig ==
    /\ InitCommon
    /\ InitScrapeVars
    /\ InitConfigVars
    /\ InitStoreVars
    /\ InitSchedVars
    /\ InitExtraVars

NextConfig ==
    \/ SetApiKeyConfig
    \/ LoadResponse
    \/ EditUrl
    \/ Advance
    \/ SaveTimer
    \/ PersistResponse
    \/ SyncResponse

SpecConfig == InitConfig /\ [][NextConfig]_vars


(***************************************************************************)
(* Debounced Config Synchronizer: properties                               *)
(***************************************************************************)
\* C4: a response of loadSavedUrl never replaces a draft that a local edit
\* has set: whenever the draft was set by handleScrapeUrlChange and a step
\* changes it, the step is another local edit
LoadNeverOverwritesEdit ==
    [][(draftSource = "edit" /\ scrapeUrl' # scrapeUrl) => draftSource' = "edit"]_vars

\* the timer t of line 68 runs in this step
TimerFires(t) == t \in timers /\ t.left = 0 /\ timers' = timers \ {t}

\* the persist requests this step issues
PersistsIssued == {m \in net' : m.op = "updateScrapeConfig"} \ net

\* every gap between consecutive edits of the pending burst was shorter
\* than the settle window
BurstWithinWindow == burst.edits >= 1 /\ burst.maxGap < SaveDelayMs

\* C7, as the spec states it: a burst of edits whose gaps are all shorter than
\* 1000 ms ends in exactly one persist request, issued 1000 ms after the last
\* edit and carrying the value of the last edit (as saveUrlToBackend sends it)
DebounceSettlesAlways ==
    [][\A t \in timers :
          (TimerFires(t) /\ BurstWithinWindow) =>
              /\ t.id = saveTimeoutRef
              /\ burst.since = SaveDelayMs
              /\ Cardinality(PersistsIssued) = 1
              /\ \A m \in PersistsIssued : m.body = urlToSave(burst.url)]_vars

\* C7, amended: no two timers are ever pending; the timer of a burst fires
\* 1000 ms after the last edit of the burst; when the credential was
\* non-empty at that edit the step issues exactly one persist request, which
\* carries the trimmed value of the last edit (null for an empty value and for
\* the default locator) under that credential, and when it was empty the step
\* issues no request; no other step issues a persist request
DebounceSettles ==
    /\ [](Cardinality(timers) <= 1)
    /\ [][\A t \in timers :
             (TimerFires(t) /\ BurstWithinWindow) =>
                 /\ t.id = saveTimeoutRef
                 /\ burst.since = SaveDelayMs
                 /\ IF burst.key # ""
                    THEN /\ Cardinality(PersistsIssued) = 1
                         /\ \A m \in PersistsIssued :
                              /\ m.body = urlToSave(burst.url)
                              /\ m.header = burst.key
                    ELSE PersistsIssued = {}]_vars
    /\ [][PersistsIssued # {} => \E t \in timers : TimerFires(t)]_vars

\* a burst of three edits has settled in one persist request, the only one
\* of the behaviour
BurstOfThreeSettled ==
    /\ settled = [edits |-> 3, persists |-> 1]
    /\ nEdits = 3
    /\ Len(saves) = 1
    /\ timers = {}

\* C8: the sync request of a save is issued only after its persist request
\* has returned without an error: the two are never in flight together, and
\* a save whose persist failed has issued no sync request
PersistBeforeSync ==
    \A i \in 1..Len(saves) :
       /\ saves[i].syncs > 0 => saves[i].persist = "ok"
       /\ saves[i].persist = "failed" => saves[i].syncs = 0
       /\ saves[i].syncs <= 1
       /\ ~ \E m, n \in net :
              /\ m.id = i /\ m.op = "updateScrapeConfig"
              /\ n.id = i /\ n.op = "syncSchedules"

\* one save has synced after a successful persist, another has failed to
\* persist
SyncedAndFailedReached ==
    \E i, j \in 1..Len(saves) :
       /\ saves[i].persist = "ok" /\ saves[i].syncs = 1 /\ saves[i].pc = "done"
       /\ saves[j].persist = "failed" /\ saves[j].pc = "done"

\* C19: the step that receives the response of the sync a save issued after
\* its successful persist issues the coordinator's request for the schedule
\* list, by which the cached entries and the active flag are fetched again
PersistSyncRefetchesSchedules ==
    [][\A m \in net :
          (m.op = "syncSchedules" /\ m \notin net') =>
              \E r \in schedNet' \ schedNet : r.op = "getSchedules"]_vars

Pieces == {" ", DEFAULT_SCRAPE_URL[1], "x"}

\* the drafts of up to MaxLen pieces
Drafts == UNION {[1..n -> Pieces] : n \in 0..MaxLen}

\* the body of the request of line 47: { custom_order_list_url: urlToSave }
saveUrlToBackend ==
    /\ payload = <<>>
    /\ payload' = <<urlToSave(draft)>>
    /\ UNCHANGED <<draft, commonVars, scrapeVars, configVars, storeVars, schedVars,
                   toastVars, uploadVars, pendingCount>>

InitNormalize ==
    /\ InitCommon
    /\ InitScrapeVars
    /\ InitConfigVars
    /\ InitStoreVars
    /\ InitSchedVars
    /\ InitToastVars
    /\ draft \in Drafts
    /\ payload = <<>>
    /\ uploadAllStatus = "idle"
    /\ uploadTimers = {}
    /\ pendingCount = 0

NextNormalize == saveUrlToBackend

SpecNormalize == InitNormalize /\ [][NextNormalize]_vars

\* C25, as the spec states it: a draft equal to the default locator is sent
\* as null, every other draft as its trimmed string
DefaultSentAsNull ==
    payload # <<>> =>
        IF draft = DEFAULT_SCRAPE_URL
        THEN payload[1] = <<>>
        ELSE payload[1] = <<Trim(draft)>>

\* C25, amended: a draft that is the default locator once trimmed, or that
\* is blank, is sent as null; every other draft is sent as its trimmed
\* string; the literal default is never sent
DefaultOrBlankSentAsNull ==
    payload # <<>> =>
        /\ payload[1] # <<DEFAULT_SCRAPE_URL>>
        /\ IF Trim(draft) = DEFAULT_SCRAPE_URL \/ Blank(draft)
           THEN payload[1] = <<>>
           ELSE payload[1] = <<Trim(draft)>>

\* the default locator with white space around it has been sent as null
PaddedDefaultSentAsNullReached ==
    /\ draft = <<" ">> \o DEFAULT_SCRAPE_URL \o <<" ">>
    /\ payload = << <<>> >>

(***************************************************************************)
(* Resource Stores: useOrders and useCalls                                 *)
(***************************************************************************)
\* ApiClient.request (page.tsx 2023-2058) without data: { error }
FailedReplies == [data : {<<>>}, error : {"", "Network error"}]

\* getOrders(skip, PAGE_SIZE) for the credential key; the total is the number
\* of orders the server holds when it answers: none, NumOrders, or one less
\* after an order was deleted
OrdersReplies(key, page) ==
    {[data |-> <<[orders |-> PageOf(key, page, t, c), total |-> t]>>, error |-> ""] :
        t \in {0, NumOrders - 1, NumOrders}, c \in 0..MaxConverted}
    \cup FailedReplies

\* getCalls(skip, PAGE_SIZE) for the credential key
CallsReplies(key, page) ==
    {[data |-> <<[calls |-> PageOf(key, page, t, 0), total |-> t]>>, error |-> ""] :
        t \in {0, NumCalls}}
    \cup FailedReplies

\* deleteOrder(id), deleteCall(id)
DeleteReplies ==
    {[data |-> <<[message |-> "deleted"]>>, error |-> ""]} \cup FailedReplies

\* data.orders.filter(o => o.status === "converted").length  (useOrders.ts:42)
Converted(items) == IF items = <<>> THEN 0 ELSE items[1].converted

\* useOrders.goToPage(page) (155-158)
goToPage(page) ==
    /\ currentPage' = page
    /\ fetchOrders(storeNet, apiKey, page)

\* fetchCalls(page) of a render whose apiKey is key, up to its await (167-172)
fetchCalls(pending, key, page) ==
    IF key = ""
    THEN /\ storeNet' = pending
         /\ UNCHANGED <<callsStatus, clientKey, lastRequest, nReq>>
    ELSE /\ callsStatus' = "loading"
         /\ Issue(pending, key, <<<<"getCalls", page>>>>)

\* useCalls.goToPage(page) (217-220)
goToCallsPage(page) ==
    /\ callsPage' = page
    /\ fetchCalls(storeNet, apiKey, page)

\* one more user action
Click ==
    /\ nClicks < MaxClicks
    /\ nClicks' = nClicks + 1

\* Header: the user types another credential; Home's effect on [apiKey]
\* (ToastContext.tsx 88-96) runs orders.goToPage(0) and calls.goToPage(0) up
\* to their awaits.  Its other two calls, fetchPendingCount and
\* fetchSchedules, belong to the orchestrator and the Schedule Coordinator
\* and touch no state of the stores.
SetApiKeyStore ==
    /\ Click
    /\ \E k \in Keys \ {apiKey} :
         /\ apiKey' = k
         /\ IF k = ""
            THEN UNCHANGED <<clientKey, lastRequest, storeNet, nReq, currentPage,
                             ordersStatus, callsPage, callsStatus>>
            ELSE /\ currentPage' = 0
                 /\ ordersStatus' = "loading"
                 /\ callsPage' = 0
                 /\ callsStatus' = "loading"
                 /\ Issue(storeNet, k, << <<"getOrders", 0>>, <<"getCalls", 0>> >>)
    /\ toastLog' = <<>>
    /\ lastReply' = NoReply
    /\ UNCHANGED <<orders, ordersTotal, pendingUploads, calls, callsTotal,
                   scrapeVars, configVars, schedState, extraVars>>

\* OrdersTable: the pagination row is rendered (line 115)
OrdersPagination == apiKey # "" /\ ordersTotal > 0

\* OrdersTable: Previous (121-127)
OrdersPrevious ==
    /\ OrdersPagination
    /\ ~ (currentPage = 0 \/ ordersStatus = "loading")
    /\ Click
    /\ UNCHANGED apiKey
    /\ goToPage(currentPage - 1)
    /\ toastLog' = <<>>
    /\ lastReply' = NoReply
    /\ UNCHANGED <<orders, ordersTotal, pendingUploads, callsVars,
                   scrapeVars, configVars, schedState, extraVars>>

\* OrdersTable: Next (131-137)
OrdersNext ==
    /\ OrdersPagination
    /\ ~ ((currentPage + 1) * PAGE_SIZE >= ordersTotal \/ ordersStatus = "loading")
    /\ Click
    /\ UNCHANGED apiKey
    /\ goToPage(currentPage + 1)
    /\ toastLog' = <<>>
    /\ lastReply' = NoReply
    /\ UNCHANGED <<orders, ordersTotal, pendingUploads, callsVars,
                   scrapeVars, configVars, schedState, extraVars>>

\* OrdersTable: Refresh (61-67), Home's onRefresh (ToastContext.tsx 151)
OrdersRefresh ==
    /\ ~ (apiKey = "" \/ ordersStatus = "loading")
    /\ Click
    /\ UNCHANGED apiKey
    /\ fetchOrders(storeNet, apiKey, currentPage)
    /\ toastLog' = <<>>
    /\ lastReply' = NoReply
    /\ UNCHANGED <<orders, ordersTotal, currentPage, pendingUploads, callsVars,
                   scrapeVars, configVars, schedState, extraVars>>

\* a fetchOrders continues after its await (38-48)
OrdersResponse ==
    /\ \E m \in storeNet :
         /\ m.op = "getOrders"
         /\ storeNet' = storeNet \ {m}
         /\ \E reply \in OrdersReplies(m.key, m.page) :
              /\ lastReply' = Received(m, reply)
              /\ IF reply.data # <<>>
                 THEN /\ orders' = reply.data[1].orders
                      /\ ordersTotal' = reply.data[1].total
                      /\ ordersStatus' = "success"
                      /\ pendingUploads' = Converted(reply.data[1].orders)
                      /\ toastLog' = <<>>
                 ELSE /\ orders' = <<>>
                      /\ ordersStatus' = "error"
                      /\ toastLog' = showToast(<<>>,
                             <<OrElse(reply.error, "Failed to fetch orders")>>, "error")
                      /\ UNCHANGED <<ordersTotal, pendingUploads>>
    /\ UNCHANGED <<apiKey, clientKey, lastRequest, currentPage, callsVars, nReq,
                      nClicks, scrapeVars, configVars, schedState, extraVars>>

\* OrderRow: the delete button of a row on display; deleteOrder up to its
\* await (51-53)
ClickDeleteOrder ==
    /\ apiKey # ""
    /\ orders # <<>>
    /\ Click
    /\ UNCHANGED apiKey
    /\ Issue(storeNet, apiKey, <<<<"deleteOrder", currentPage>>>>)
    /\ toastLog' = <<>>
    /\ lastReply' = NoReply
    /\ UNCHANGED <<ordersVars, callsVars, scrapeVars, configVars, schedState, extraVars>>

\* deleteOrder continues after its await (54-59) with the fetchOrders and the
\* currentPage of its render
DeleteOrderResponse ==
    /\ \E m \in storeNet :
         /\ m.op = "deleteOrder"
         /\ UNCHANGED apiKey
         /\ \E reply \in DeleteReplies :
              /\ lastReply' = Received(m, reply)
              /\ IF reply.data # <<>>
                 THEN /\ toastLog' = showToast(<<>>, <<reply.data[1].message>>, "success")
                      /\ fetchOrders(storeNet \ {m}, m.key, m.page)
                 ELSE /\ toastLog' = showToast(<<>>,
                             <<OrElse(reply.error, "Failed to delete order")>>, "error")
                      /\ storeNet' = storeNet \ {m}
                      /\ UNCHANGED <<ordersStatus, clientKey, lastRequest, nReq>>
    /\ UNCHANGED <<orders, ordersTotal, currentPage, pendingUploads, callsVars,
                      nClicks, scrapeVars, configVars, schedState, extraVars>>

\* CallsTable: the pagination row is rendered (part_001 193)
CallsPagination == apiKey # "" /\ callsTotal > 0

\* CallsTable: Previous (part_001 199-205)
CallsPrevious ==
    /\ CallsPagination
    /\ ~ (callsPage = 0 \/ callsStatus = "loading")
    /\ Click
    /\ UNCHANGED apiKey
    /\ goToCallsPage(callsPage - 1)
    /\ toastLog' = <<>>
    /\ lastReply' = NoReply
    /\ UNCHANGED <<calls, callsTotal, ordersVars, scrapeVars, configVars, schedState, extraVars>>

\* CallsTable: Next (part_001 209-215)
CallsNext ==
    /\ CallsPagination
    /\ ~ ((callsPage + 1) * PAGE_SIZE >= callsTotal \/ callsStatus = "loading")
    /\ Click
    /\ UNCHANGED apiKey
    /\ goToCallsPage(callsPage + 1)
    /\ toastLog' = <<>>
    /\ lastReply' = NoReply
    /\ UNCHANGED <<calls, callsTotal, ordersVars, scrapeVars, configVars, schedState, extraVars>>

\* CallsTable: Refresh (part_001 140-146), Home's onRefresh (ToastContext.tsx 165)
CallsRefresh ==
    /\ ~ (apiKey = "" \/ callsStatus = "loading")
    /\ Click
    /\ UNCHANGED apiKey
    /\ fetchCalls(storeNet, apiKey, callsPage)
    /\ toastLog' = <<>>
    /\ lastReply' = NoReply
    /\ UNCHANGED <<calls, callsTotal, callsPage, ordersVars,
                   scrapeVars, configVars, schedState, extraVars>>

\* a fetchCalls continues after its await (173-181)
CallsResponse ==
    /\ \E m \in storeNet :
         /\ m.op = "getCalls"
         /\ storeNet' = storeNet \ {m}
         /\ \E reply \in CallsReplies(m.key, m.page) :
              /\ lastReply' = Received(m, reply)
              /\ IF reply.data # <<>>
                 THEN /\ calls' = reply.data[1].calls
                      /\ callsTotal' = reply.data[1].total
                      /\ callsStatus' = "success"
                      /\ toastLog' = <<>>
                 ELSE /\ calls' = <<>>
                      /\ callsStatus' = "error"
                      /\ toastLog' = showToast(<<>>,
                             <<OrElse(reply.error, "Failed to fetch calls")>>, "error")
                      /\ UNCHANGED callsTotal
    /\ UNCHANGED <<apiKey, clientKey, lastRequest, callsPage, ordersVars, nReq,
                      nClicks, scrapeVars, configVars, schedState, extraVars>>

\* CallsTable: the delete button of a row on display; deleteCall up to its
\* await (184-186)
ClickDeleteCall ==
    /\ apiKey # ""
    /\ calls # <<>>
    /\ Click
    /\ UNCHANGED apiKey
    /\ Issue(storeNet, apiKey, <<<<"deleteCall", callsPage>>>>)
    /\ toastLog' = <<>>
    /\ lastReply' = NoReply
    /\ UNCHANGED <<ordersVars, callsVars, scrapeVars, configVars, schedState, extraVars>>

\* deleteCall continues after its await (187-192) with the fetchCalls and
\* the callsPage of its render
DeleteCallResponse ==
    /\ \E m \in storeNet :
         /\ m.op = "deleteCall"
         /\ UNCHANGED apiKey
         /\ \E reply \in DeleteReplies :
              /\ lastReply' = Received(m, reply)
              /\ IF reply.data # <<>>
                 THEN /\ toastLog' = showToast(<<>>, <<reply.data[1].message>>, "success")
                      /\ fetchCalls(storeNet \ {m}, m.key, m.page)
                 ELSE /\ toastLog' = showToast(<<>>,
                             <<OrElse(reply.error, "Error deleting")>>, "error")
                      /\ storeNet' = storeNet \ {m}
                      /\ UNCHANGED <<callsStatus, clientKey, lastRequest, nReq>>
    /\ UNCHANGED <<calls, callsTotal, callsPage, ordersVars, nClicks,
                      scrapeVars, configVars, schedState, extraVars>>

InitStore ==
    /\ InitCommon
    /\ InitScrapeVars
    /\ InitConfigVars
    /\ InitStoreVars
    /\ InitSchedVars
    /\ InitExtraVars

NextStore ==
    \/ SetApiKeyStore
    \/ OrdersPrevious
    \/ OrdersNext
    \/ OrdersRefresh
    \/ OrdersResponse
    \/ ClickDeleteOrder
    \/ DeleteOrderResponse
    \/ CallsPrevious
    \/ CallsNext
    \/ CallsRefresh
    \/ CallsResponse
    \/ ClickDeleteCall
    \/ DeleteCallResponse

SpecStore == InitStore /\ [][NextStore]_vars

(***************************************************************************)
(* Resource Stores: properties                                             *)
(***************************************************************************)
\* a fetch of the store is in flight
FetchInFlight(op) == \E m \in storeNet : m.op = op

\* C1: cursor wins: when fetches for two pages overlap, the page on display
\* in the end is the one the cursor points to; in every state with no fetch
\* in flight, the items the Orders store holds are those of page currentPage
\* and the items the Calls store holds are those of page callsPage
CursorWins ==
    /\ (~ FetchInFlight("getOrders") /\ orders # <<>>) => orders[1].page = currentPage
    /\ (~ FetchInFlight("getCalls") /\ calls # <<>>) => calls[1].page = callsPage

\* C6: a response to a request that was issued under another credential than
\* the one Home holds when it arrives changes neither the items, the total,
\* the derived counter nor the status of the Orders and the Calls store
StaleCredentialIgnored ==
    [][\A m \in storeNet :
          (m \notin storeNet' /\ m.key # apiKey) =>
              UNCHANGED <<orders, ordersTotal, ordersStatus, pendingUploads,
                          calls, callsTotal, callsStatus>>]_vars

\* C14: whenever a store shows the outcome of a successful fetch, it holds at
\* most PAGE_SIZE items and its cursor points inside the total:
\* total = 0 or currentPage * PAGE_SIZE < total
PageWithinTotal ==
    /\ ordersStatus = "success" =>
          /\ Length(orders) <= PAGE_SIZE
          /\ ordersTotal = 0 \/ currentPage * PAGE_SIZE < ordersTotal
    /\ callsStatus = "success" =>
          /\ Length(calls) <= PAGE_SIZE
          /\ callsTotal = 0 \/ callsPage * PAGE_SIZE < callsTotal

\* this step pushed exactly one toast, of kind error
OneErrorToast == Len(toastLog') = 1 /\ toastLog'[1].type = "error"

\* C20: the step that receives a failed response of a page fetch empties the
\* items of that store, sets its status to error, pushes exactly one error
\* toast and leaves its total and its cursor alone
FetchFailureClearsItems ==
    /\ [][lastReply' = [op |-> "getOrders", ok |-> FALSE] =>
            /\ orders' = <<>>
            /\ ordersStatus' = "error"
            /\ OneErrorToast
            /\ UNCHANGED <<ordersTotal, currentPage>>]_vars
    /\ [][lastReply' = [op |-> "getCalls", ok |-> FALSE] =>
            /\ calls' = <<>>
            /\ callsStatus' = "error"
            /\ OneErrorToast
            /\ UNCHANGED <<callsTotal, callsPage>>]_vars

\* page 1 of the orders was asked for and the fetch failed: no items, status
\* error, the total of the earlier fetch and the cursor on page 1 are kept
FailedOrdersFetchReached ==
    /\ lastReply = [op |-> "getOrders", ok |-> FALSE]
    /\ orders = <<>>
    /\ ordersStatus = "error"
    /\ ordersTotal = NumOrders
    /\ currentPage = 1
    /\ toastLog = <<Toast(<<"Network error">>, "error")>>

\* the requests this step issued are exactly one fetch, of `op`, for `page`
OneFetchIssued(op, page) ==
    \E r \in storeNet' \ storeNet :
        /\ storeNet' \ storeNet = {r}
        /\ r.op = op
        /\ r.page = page

\* C21: the step that receives the response of a delete pushes one toast; on
\* success it is of kind success and exactly one fetch is issued, for the
\* page the cursor points to, the cursor staying where it is; on failure it
\* is of kind error, no fetch is issued and items, total and cursor stay
DeleteRefetchesCurrentPage ==
    /\ [][lastReply'.op = "deleteOrder" =>
            IF lastReply'.ok
            THEN /\ Len(toastLog') = 1 /\ toastLog'[1].type = "success"
                 /\ OneFetchIssued("getOrders", currentPage)
                 /\ currentPage' = currentPage
            ELSE /\ OneErrorToast
                 /\ storeNet' \subseteq storeNet
                 /\ UNCHANGED <<orders, ordersTotal, currentPage>>]_vars
    /\ [][lastReply'.op = "deleteCall" =>
            IF lastReply'.ok
            THEN /\ Len(toastLog') = 1 /\ toastLog'[1].type = "success"
                 /\ OneFetchIssued("getCalls", callsPage)
                 /\ callsPage' = callsPage
            ELSE /\ OneErrorToast
                 /\ storeNet' \subseteq storeNet
                 /\ UNCHANGED <<calls, callsTotal, callsPage>>]_vars

(***************************************************************************)
(* Schedule Coordinator: useSchedules (useOrders.ts 207-279)               *)
(***************************************************************************)
\* ScrapeSchedule, of which the hook and ScheduleManager read id, enabled
\* and time_display
ScheduleEntries == [id : {1}, enabled : BOOLEAN, time_display : {"06:00"}]

\* getSchedules: ScheduleListResponse or { error }
ListReplies ==
    [data : {<<[schedules |-> l, schedule_active |-> a]>> :
                l \in {<<>>} \cup {<<x>> : x \in ScheduleEntries}, a \in BOOLEAN},
     error : {""}]
    \cup FailedReplies

\* createSchedule, toggleSchedule: the ScrapeSchedule or { error }
EntryReplies ==
    [data : {<<x>> : x \in ScheduleEntries}, error : {""}] \cup FailedReplies

\* deleteSchedule, syncSchedules: { message } or { error }
MessageReplies ==
    {[data |-> <<[message |-> "done"]>>, error |-> ""]} \cup FailedReplies

\* a request of the coordinator in flight; key is the apiKey of the render
\* whose handler issued it, arg the schedule id it names (0: none)
SchedRequest(op, id, key, arg) == [op |-> op, id |-> id, key |-> key, arg |-> arg]

\* apiClient.setApiKey(key) and one request sent under it
IssueSched(pending, key, op, arg) ==
    /\ clientKey' = key
    /\ schedNet' = pending \cup {SchedRequest(op, nSchedReq + 1, key, arg)}
    /\ nSchedReq' = nSchedReq + 1
    /\ lastRequest' = [op |-> op, header |-> key, credential |-> apiKey']

\* fetchSchedules of a render whose apiKey is key, up to its await (214-217)
fetchSchedulesSkipped(pending, key) ==
    /\ schedNet' = pending
    /\ UNCHANGED <<clientKey, lastRequest, nSchedReq>>
fetchSchedules(pending, key) ==
    IF key = ""
    THEN /\ schedNet' = pending
         /\ UNCHANGED <<clientKey, lastRequest, nSchedReq>>
    ELSE IssueSched(pending, key, "getSchedules", 0)

\* one more user action
SchedClick ==
    /\ nSchedClicks < MaxSchedClicks
    /\ nSchedClicks' = nSchedClicks + 1

\* Header: the user types another credential; Home's effect on [apiKey]
\* (ToastContext.tsx 88-96) calls schedules.fetchSchedules()
SetApiKeySched ==
    /\ SchedClick
    /\ \E k \in Keys \ {apiKey} :
         /\ apiKey' = k
         /\ IF k = ""
            THEN UNCHANGED <<clientKey, lastRequest, schedNet, nSchedReq>>
            ELSE fetchSchedules(schedNet, k)
    /\ toastLog' = <<>>
    /\ lastReply' = NoReply
    /\ UNCHANGED <<schedules, scheduleActive, scheduleStatus, statusTimers,
                   scrapeVars, configVars, storeVars, extraVars>>

\* a fetchSchedules continues after its await (218-223); a failure goes to
\* console.error
SchedulesResponse ==
    /\ \E m \in schedNet :
         /\ m.op = "getSchedules"
         /\ schedNet' = schedNet \ {m}
         /\ \E reply \in ListReplies :
              /\ lastReply' = Received(m, reply)
              /\ IF reply.data # <<>>
                 THEN /\ schedules' = reply.data[1].schedules
                      /\ scheduleActive' = reply.data[1].schedule_active
                 ELSE UNCHANGED <<schedules, scheduleActive>>
    /\ toastLog' = <<>>
    /\ UNCHANGED <<apiKey, clientKey, lastRequest, scheduleStatus, statusTimers,
                   nSchedReq, nSchedClicks, scrapeVars, configVars, storeVars, extraVars>>

\* ScheduleManager renders nothing without a credential (line 36)
ScheduleManagerShown == apiKey # ""

\* ScheduleManager: Add (103-105); addSchedule up to its await (226-236)
ClickAddSchedule ==
    /\ ScheduleManagerShown
    /\ scheduleStatus # "loading"
    /\ SchedClick
    /\ UNCHANGED apiKey
    /\ IF apiKey = ""
       THEN /\ toastLog' = showToast(<<>>, <<"API key required">>, "error")
            /\ UNCHANGED <<scheduleStatus, clientKey, lastRequest, schedNet, nSchedReq>>
       ELSE /\ toastLog' = <<>>
            /\ scheduleStatus' = "loading"
            /\ IssueSched(schedNet, apiKey, "createSchedule", 0)
    /\ lastReply' = NoReply
    /\ UNCHANGED <<schedules, scheduleActive, statusTimers,
                   scrapeVars, configVars, storeVars, extraVars>>

\* addSchedule continues after its await (237-246)
AddScheduleResponse ==
    /\ \E m \in schedNet :
         /\ m.op = "createSchedule"
         /\ UNCHANGED apiKey
         /\ \E reply \in EntryReplies :
              /\ lastReply' = Received(m, reply)
              /\ IF reply.data # <<>>
                 THEN /\ scheduleStatus' = "success"
                      /\ toastLog' = showToast(<<>>,
                            <<"Time ", reply.data[1].time_display, " added">>, "success")
                      /\ fetchSchedules(schedNet \ {m}, m.key)
                 ELSE /\ scheduleStatus' = "error"
                      /\ toastLog' = showToast(<<>>,
                            <<OrElse(reply.error, "Error adding schedule")>>, "error")
                      /\ schedNet' = schedNet \ {m}
                      /\ UNCHANGED <<clientKey, lastRequest, nSchedReq>>
    /\ statusTimers' = statusTimers + 1
    /\ UNCHANGED <<schedules, scheduleActive, nSchedClicks,
                   scrapeVars, configVars, storeVars, extraVars>>

\* setTimeout(() => setScheduleStatus("idle"), 2000) fires (line 246)
StatusTimer ==
    /\ statusTimers > 0
    /\ statusTimers' = statusTimers - 1
    /\ scheduleStatus' = "idle"
    /\ toastLog' = <<>>
    /\ lastReply' = NoReply
    /\ UNCHANGED <<apiKey, clientKey, lastRequest, schedules, scheduleActive, schedNet,
                   nSchedReq, nSchedClicks, scrapeVars, configVars, storeVars, extraVars>>

\* a handler of an entry on display, up to its await: removeSchedule
\* (249-251), toggleScheduleEnabled (259-261)
ClickEntry(op) ==
    /\ ScheduleManagerShown
    /\ SchedClick
    /\ UNCHANGED apiKey
    /\ \E i \in 1..Len(schedules) : IssueSched(schedNet, apiKey, op, schedules[i].id)
    /\ toastLog' = <<>>
    /\ lastReply' = NoReply
    /\ UNCHANGED <<schedules, scheduleActive, scheduleStatus, statusTimers,
                   scrapeVars, configVars, storeVars, extraVars>>

\* ScheduleManager: Delete of an entry (157-158)
ClickRemoveSchedule ==
    /\ Len(schedules) > 0
    /\ ClickEntry("deleteSchedule")

\* ScheduleManager: Disable / Enable of an entry (135-136)
ClickToggleSchedule ==
    /\ Len(schedules) > 0
    /\ ClickEntry("toggleSchedule")

\* ScheduleManager: "Not synced - Click to sync" (57-64); syncSchedules up to
\* its await (270-272)
ClickSyncSchedules ==
    /\ ScheduleManagerShown
    /\ ~ scheduleActive
    /\ Len(schedules) > 0
    /\ SchedClick
    /\ UNCHANGED apiKey
    /\ IssueSched(schedNet, apiKey, "syncSchedules", 0)
    /\ toastLog' = <<>>
    /\ lastReply' = NoReply
    /\ UNCHANGED <<schedules, scheduleActive, scheduleStatus, statusTimers,
                   scrapeVars, configVars, storeVars, extraVars>>

\* showToast(data.message, "success")
MessageToast(data) == <<data.message>>

\* `Time ${data.time_display} ${data.enabled ? 'enabled' : 'disabled'}`
ToggleToast(data) ==
    <<"Time ", data.time_display, " ", IF data.enabled THEN "enabled" ELSE "disabled">>

\* the text of the success toast of a mutation other than add
MutationToast(op, data) ==
    IF op = "toggleSchedule" THEN ToggleToast(data) ELSE MessageToast(data)

\* a mutation other than add continues after its await: one toast, and on
\* success the fetchSchedules of its render
MutationResponse(op, replies, failed) ==
    /\ \E m \in schedNet :
         /\ m.op = op
         /\ UNCHANGED apiKey
         /\ \E reply \in replies :
              /\ lastReply' = Received(m, reply)
              /\ IF reply.data # <<>>
                 THEN /\ toastLog' = showToast(<<>>, MutationToast(op, reply.data[1]), "success")
                      /\ fetchSchedules(schedNet \ {m}, m.key)
                 ELSE /\ toastLog' = showToast(<<>>, <<OrElse(reply.error, failed)>>, "error")
                      /\ schedNet' = schedNet \ {m}
                      /\ UNCHANGED <<clientKey, lastRequest, nSchedReq>>
    /\ UNCHANGED <<schedules, scheduleActive, scheduleStatus, statusTimers, nSchedClicks,
                   scrapeVars, configVars, storeVars, extraVars>>

\* removeSchedule continues after its await (252-256)
RemoveScheduleResponse ==
    /\ schedNet # {}
    /\ MutationResponse("deleteSchedule", MessageReplies, "Error deleting schedule")

\* toggleScheduleEnabled continues after its await (262-267)
ToggleScheduleResponse ==
    /\ schedNet # {}
    /\ MutationResponse("toggleSchedule", EntryReplies, "Error")

\* syncSchedules continues after its await (273-278)
SyncSchedulesResponse ==
    /\ schedNet # {}
    /\ MutationResponse("syncSchedules", MessageReplies, "Sync failed")

InitSched ==
    /\ InitCommon
    /\ InitScrapeVars
    /\ InitConfigVars
    /\ InitStoreVars
    /\ InitSchedVars
    /\ InitExtraVars

NextSched ==
    \/ SetApiKeySched
    \/ SchedulesResponse
    \/ ClickAddSchedule
    \/ AddScheduleResponse
    \/ StatusTimer
    \/ ClickRemoveSchedule
    \/ RemoveScheduleResponse
    \/ ClickToggleSchedule
    \/ ToggleScheduleResponse
    \/ ClickSyncSchedules
    \/ SyncSchedulesResponse

SpecSched == InitSched /\ [][NextSched]_vars

(***************************************************************************)
(* Schedule Coordinator: properties                                        *)
(***************************************************************************)
MutationOps == {"createSchedule", "deleteSchedule", "toggleSchedule", "syncSchedules"}

\* C18: the step that receives the response of an add, remove, toggle or
\* sync leaves the cached entries and the active flag alone and issues, on
\* success, exactly one request for the schedule list and, on failure, none;
\* the entries and the flag change only in a step that receives a successful
\* response of a list request, and to what that response holds
MutationRefetchesOnce ==
    /\ [][\A m \in schedNet :
            (m.op \in MutationOps /\ m \notin schedNet') =>
                /\ lastReply'.op = m.op
                /\ UNCHANGED <<schedules, scheduleActive>>
                /\ schedNet \ {m} \subseteq schedNet'
                /\ schedNet' \ schedNet =
                     IF lastReply'.ok
                     THEN {SchedRequest("getSchedules", nSchedReq + 1, m.key, 0)}
                     ELSE {}]_vars
    /\ [][<<schedules, scheduleActive>>' # <<schedules, scheduleActive>> =>
            /\ lastReply' = [op |-> "getSchedules", ok |-> TRUE]
            /\ \E reply \in ListReplies :
                 /\ reply.data # <<>>
                 /\ schedules' = reply.data[1].schedules
                 /\ scheduleActive' = reply.data[1].schedule_active]_vars

\* an entry was disabled with success: the toast says so, the entry cached is
\* still the enabled one, and the one request for the list is in flight
ToggleRefetchReached ==
    /\ lastReply = [op |-> "toggleSchedule", ok |-> TRUE]
    /\ toastLog = <<Toast(<<"Time ", "06:00", " ", "disabled">>, "success")>>
    /\ schedules = <<[id |-> 1, enabled |-> TRUE, time_display |-> "06:00"]>>
    /\ Cardinality(schedNet) = 1
    /\ \A m \in schedNet : m.op = "getSchedules"

\* C15: the step that receives a failed response pushes exactly one toast of
\* kind error
FailureBecomesOneErrorToast ==
    [][(lastReply'.op # "none" /\ ~ lastReply'.ok) =>
          Len(ErrorToasts(toastLog')) = 1]_vars

\* C27: while a createSchedule request is in flight the status flag of
\* addSchedule is loading
AddStatusLoadingInFlight ==
    (\E m \in schedNet : m.op = "createSchedule") => scheduleStatus = "loading"

(***************************************************************************)
(* Notification Bus: ToastProvider (ToastContext.tsx 18-35)                *)
(***************************************************************************)
\* the showToast calls made within one millisecond: one, or one more than
\* the counter distinguishes
BurstSizes == {1, CounterModulus + 1}

ToastTexts == {"URL saved"}
ToastTypes == {"success"}

\* Date.now() * 1000 + (toastCounterRef.current++ % 1000), for the call that
\* finds the counter at `counter`
ToastId(now, counter) == now * IdsPerMs + (counter % CounterModulus)

\* setTimeout(..., 4000) for each toast pushed: the timers pending before
\* stay as they are
ArmRemovalsReplacing(pending, new) == new
ArmRemovals(pending, new) == pending \cup new

\* n calls of showToast(message, type) within the millisecond `clock`
\* (lines 22-28)
ShowToasts ==
    /\ nShows < MaxShows
    /\ nShows' = nShows + 1
    /\ \E n \in BurstSizes, message \in ToastTexts, type \in ToastTypes :
         LET new == [i \in 1..n |->
                        [id |-> ToastId(clock, toastCounterRef + i - 1),
                         message |-> message, type |-> type,
                         seq |-> toastCounterRef + i, at |-> clock]]
         IN /\ Len(toasts) + n <= MaxQueue
            /\ toasts' = toasts \o new
            /\ toastCounterRef' = toastCounterRef + n
            /\ removals' = ArmRemovals(removals,
                   {[id |-> new[i].id, seq |-> new[i].seq, left |-> ToastLifeMs] :
                       i \in 1..n})
    /\ UNCHANGED <<clock, commonVars, scrapeVars, configVars, storeVars, schedVars,
                   normVars, uploadVars, pendingCount>>

\* the time until the next removal is due
NextDue(pending) ==
    LET lefts == {t.left : t \in pending}
    IN CHOOSE x \in lefts : \A y \in lefts : x <= y

\* time passes: one step of the clock, or all the time up to the next removal
\* that is due if that is less
AdvanceClock ==
    /\ removals # {}
    /\ NextDue(removals) > 0
    /\ \E d \in {NextDue(removals), ToastStepMs} :
         /\ d <= NextDue(removals)
         /\ clock' = clock + d
         /\ removals' = {[t EXCEPT !.left = @ - d] : t \in removals}
    /\ UNCHANGED <<toasts, toastCounterRef, nShows, commonVars, scrapeVars, configVars,
                   storeVars, schedVars, normVars, uploadVars, pendingCount>>

\* the removal timers that are due
Due(pending) == {t \in pending : t.left = 0}

\* the removal timers that are due fire, one after the other with nothing in
\* between: each is setToasts(prev => prev.filter(t => t.id !== id)), and
\* the filters of all of them leave the toasts whose id none of them holds
RemoveToast ==
    /\ Due(removals) # {}
    /\ removals' = removals \ Due(removals)
    /\ toasts' = LET ids == {t.id : t \in Due(removals)}
                 IN SelectSeq(toasts, LAMBDA x : x.id \notin ids)
    /\ UNCHANGED <<toastCounterRef, clock, nShows, commonVars, scrapeVars, configVars,
                   storeVars, schedVars, normVars, uploadVars, pendingCount>>

InitToast ==
    /\ InitCommon
    /\ InitScrapeVars
    /\ InitConfigVars
    /\ InitStoreVars
    /\ InitSchedVars
    /\ InitExtraVars

NextToast ==
    \/ ShowToasts
    \/ AdvanceClock
    \/ RemoveToast

SpecToast == InitToast /\ [][NextToast]_vars

(***************************************************************************)
(* Notification Bus: properties                                            *)
(***************************************************************************)
\* C22: the toasts in the queue have pairwise distinct ids
ToastIdsDistinct ==
    Cardinality({toasts[i].id : i \in 1..Len(toasts)}) = Len(toasts)

\* the showToast calls whose toasts are in queue q
Queued(q) == {q[i].seq : i \in 1..Len(q)}

HomeEffectFetchesNoCount == << <<"getOrders", 0>>, <<"getCalls", 0>> >>
HomeEffectFetches ==
    << <<"getOrders", 0>>, <<"getPendingConversions", 0>>, <<"getCalls", 0>> >>

\* getPendingConversions (useScraping.ts 170-177)
PendingCountReplies ==
    {[data |-> <<[pending_count |-> n]>>, error |-> ""] : n \in 0..MaxConverted}
    \cup FailedReplies

\* Header: the user types another credential; the effect runs the four
\* calls of the render that has the new apiKey, each up to its await
SetApiKeyHome ==
    /\ nKeyChanges < MaxKeyChanges
    /\ nKeyChanges' = nKeyChanges + 1
    /\ \E k \in Keys \ {apiKey} :
         /\ apiKey' = k
         /\ IF k = ""
            THEN UNCHANGED <<clientKey, lastRequest, storeNet, nReq, currentPage,
                             ordersStatus, callsPage, callsStatus, schedNet, nSchedReq>>
            ELSE /\ currentPage' = 0
                 /\ ordersStatus' = "loading"
                 /\ callsPage' = 0
                 /\ callsStatus' = "loading"
                 /\ Issue(storeNet, k, HomeEffectFetches)
                 /\ schedNet' = schedNet \cup
                                  {SchedRequest("getSchedules", nSchedReq + 1, k, 0)}
                 /\ nSchedReq' = nSchedReq + 1
    /\ toastLog' = <<>>
    /\ lastReply' = NoReply
    /\ UNCHANGED <<orders, ordersTotal, pendingUploads, calls, callsTotal, nClicks,
                   schedules, scheduleActive, scheduleStatus, statusTimers,
                   nSchedClicks, scrapeVars, extraVars>>
    /\ UNCHANGED <<timers, saveTimeoutRef, net, saves, nEdits, draftSource, burst,
                   settled>>

\* fetchPendingCount continues after its await (173-176); a failure is
\* dropped
PendingCountResponse ==
    /\ \E m \in storeNet :
         /\ m.op = "getPendingConversions"
         /\ storeNet' = storeNet \ {m}
         /\ \E reply \in PendingCountReplies :
              /\ lastReply' = Received(m, reply)
              /\ IF reply.data # <<>>
                 THEN pendingCount' = reply.data[1].pending_count
                 ELSE UNCHANGED pendingCount
    /\ toastLog' = <<>>
    /\ UNCHANGED <<apiKey, clientKey, lastRequest, ordersVars, callsVars, nReq, nClicks,
                   scrapeVars, configVars, schedState, toastVars, normVars, uploadVars>>

\* the page is fresh, or the user has typed key-A and paged the orders
\* forward already
InitHome ==
    /\ \/ InitCommon /\ InitStoreVars /\ lastReply = NoReply
       \/ Browsed
    /\ InitScrapeVars
    /\ InitConfigVars
    /\ InitSchedState
    /\ InitExtraVars

NextHome ==
    \/ SetApiKeyHome
    \/ OrdersResponse
    \/ CallsResponse
    \/ PendingCountResponse
    \/ SchedulesResponse

SpecHome == InitHome /\ [][NextHome]_vars

(***************************************************************************)
(* Composition Root: properties                                            *)
(***************************************************************************)
\* the requests a step issues
StoreIssued == storeNet' \ storeNet
SchedIssued == schedNet' \ schedNet

\* C26: a step that changes the credential to a non-empty value puts both
\* cursors at 0 and issues four requests, no more: the orders of page 0, the
\* calls of page 0, the count of pending conversions and the schedule list,
\* each under the new credential; a step that changes it to the empty value
\* issues no request
CredentialChangeLoadsAll ==
    [][apiKey' # apiKey =>
          IF apiKey' # ""
          THEN /\ currentPage' = 0
               /\ callsPage' = 0
               /\ clientKey' = apiKey'
               /\ Cardinality(StoreIssued) = 3
               /\ \A op \in {"getOrders", "getCalls", "getPendingConversions"} :
                    \E r \in StoreIssued :
                       r.op = op /\ r.key = apiKey' /\ r.page = 0
               /\ Cardinality(SchedIssued) = 1
               /\ \A r \in SchedIssued : r.op = "getSchedules" /\ r.key = apiKey'
          ELSE /\ storeNet' = storeNet
               /\ schedNet' = schedNet]_vars

\* the credential was changed to key-B while page 1 of the orders of key-A
\* was on display: the cursor is back at 0 and the four requests under key-B
\* are in flight
SecondCredentialLoadsAllReached ==
    /\ apiKey = "key-B"
    /\ currentPage = 0
    /\ orders = PageOf("key-A", 1, NumOrders, 0)
    /\ \A op \in {"getOrders", "getCalls", "getPendingConversions"} :
         \E r \in storeNet : r.op = op /\ r.key = "key-B" /\ r.page = 0
    /\ \E r \in schedNet : r.op = "getSchedules" /\ r.key = "key-B"

(***************************************************************************)
(* Resource Stores: uploads (useOrders.ts 62-94)                           *)
(***************************************************************************)
\* triggerUpload(orderId)
UploadReplies ==
    {[data |-> <<[message |-> "triggered"]>>, error |-> ""]} \cup FailedReplies

\* triggerAllUploads()
UploadAllReplies ==
    {[data |-> <<[triggered_count |-> n]>>, error |-> ""] : n \in 0..MaxConverted}
    \cup FailedReplies

\* a pending setTimeout of an upload handler: key and page are the apiKey and
\* the currentPage its closure holds
UploadTimer(kind, m) == [id |-> m.id, kind |-> kind, key |-> m.key, page |-> m.page]

\* OrderRow: the upload button of a converted order on display (part_002
\* 71-73); uploadSingleOrder up to its await (62-64)
ClickUploadOrder ==
    /\ apiKey # ""
    /\ Converted(orders) > 0
    /\ Click
    /\ UNCHANGED apiKey
    /\ Issue(storeNet, apiKey, <<<<"triggerUpload", currentPage>>>>)
    /\ toastLog' = <<>>
    /\ lastReply' = NoReply
    /\ UNCHANGED <<ordersVars, callsVars, scrapeVars, configVars, schedState, extraVars>>

\* uploadSingleOrder continues after its await (65-70)
UploadOrderResponse ==
    /\ \E m \in storeNet :
         /\ m.op = "triggerUpload"
         /\ storeNet' = storeNet \ {m}
         /\ \E reply \in UploadReplies :
              /\ lastReply' = Received(m, reply)
              /\ IF reply.data # <<>>
                 THEN /\ toastLog' = showToast(<<>>,
                            <<"Upload triggered for order ", NumStr(1)>>, "success")
                      /\ uploadTimers' = uploadTimers \cup {UploadTimer("refetch", m)}
                 ELSE /\ toastLog' = showToast(<<>>,
                            <<OrElse(reply.error, "Failed to trigger upload")>>, "error")
                      /\ UNCHANGED uploadTimers
    /\ UNCHANGED <<apiKey, clientKey, lastRequest, ordersVars, callsVars, nReq, nClicks,
                   scrapeVars, configVars, schedState, toastVars, normVars,
                   uploadAllStatus, pendingCount>>

\* the upload-all button (part_000 247, 261-262); uploadAllOrders up to its
\* await (73-80)
ClickUploadAll ==
    /\ apiKey # ""
    /\ pendingUploads > 0
    /\ uploadAllStatus # "loading"
    /\ Click
    /\ UNCHANGED apiKey
    /\ IF apiKey = ""
       THEN /\ toastLog' = showToast(<<>>, <<"API key required">>, "error")
            /\ UNCHANGED <<uploadAllStatus, clientKey, lastRequest, storeNet, nReq>>
       ELSE /\ toastLog' = <<>>
            /\ uploadAllStatus' = "loading"
            /\ Issue(storeNet, apiKey, <<<<"triggerAllUploads", currentPage>>>>)
    /\ lastReply' = NoReply
    /\ UNCHANGED <<ordersVars, callsVars, scrapeVars, configVars, schedState,
                   toastVars, normVars, uploadTimers, pendingCount>>

\* uploadAllOrders continues after its await (81-93)
UploadAllResponse ==
    /\ \E m \in storeNet :
         /\ m.op = "triggerAllUploads"
         /\ storeNet' = storeNet \ {m}
         /\ \E reply \in UploadAllReplies :
              /\ lastReply' = Received(m, reply)
              /\ IF reply.data # <<>>
                 THEN /\ uploadAllStatus' = "success"
                      /\ IF reply.data[1].triggered_count > 0
                         THEN /\ toastLog' = showToast(<<>>,
                                    <<NumStr(reply.data[1].triggered_count),
                                      " upload(s) triggered">>, "success")
                              /\ uploadTimers' = uploadTimers \cup
                                    {UploadTimer("refetch", m), UploadTimer("idle", m)}
                         ELSE /\ toastLog' = showToast(<<>>,
                                    <<"No pending uploads">>, "success")
                              /\ uploadTimers' = uploadTimers \cup {UploadTimer("idle", m)}
                 ELSE /\ uploadAllStatus' = "error"
                      /\ toastLog' = showToast(<<>>,
                            <<OrElse(reply.error, "Failed to trigger uploads")>>, "error")
                      /\ uploadTimers' = uploadTimers \cup {UploadTimer("idle", m)}
    /\ UNCHANGED <<apiKey, clientKey, lastRequest, ordersVars, callsVars, nReq, nClicks,
                   scrapeVars, configVars, schedState, toastVars, normVars, pendingCount>>

\* setTimeout(() => fetchOrders(currentPage), 3000) fires (lines 67, 85): the
\* fetchOrders and the currentPage are those of the closure that set it
RefetchTimer ==
    /\ \E t \in uploadTimers :
         /\ t.kind = "refetch"
         /\ uploadTimers' = uploadTimers \ {t}
         /\ UNCHANGED apiKey
         /\ fetchOrders(storeNet, t.key, t.page)
    /\ toastLog' = <<>>
    /\ lastReply' = NoReply
    /\ UNCHANGED <<orders, ordersTotal, currentPage, pendingUploads, callsVars, nClicks,
                   scrapeVars, configVars, schedState, toastVars, normVars,
                   uploadAllStatus, pendingCount>>

\* setTimeout(() => setUploadAllStatus("idle"), 3000) fires (line 93)
UploadStatusTimer ==
    /\ \E t \in uploadTimers :
         /\ t.kind = "idle"
         /\ uploadTimers' = uploadTimers \ {t}
    /\ uploadAllStatus' = "idle"
    /\ toastLog' = <<>>
    /\ lastReply' = NoReply
    /\ UNCHANGED <<apiKey, clientKey, lastRequest, storeVars, scrapeVars, configVars,
                   schedState, toastVars, normVars, pendingCount>>

InitUpload ==
    /\ InitCommon
    /\ InitScrapeVars
    /\ InitConfigVars
    /\ InitStoreVars
    /\ InitSchedVars
    /\ InitExtraVars

NextUpload ==
    \/ SetApiKeyStore
    \/ OrdersNext
    \/ OrdersResponse
    \/ CallsResponse
    \/ ClickUploadOrder
    \/ UploadOrderResponse
    \/ ClickUploadAll
    \/ UploadAllResponse
    \/ RefetchTimer
    \/ UploadStatusTimer

SpecUpload == InitUpload /\ [][NextUpload]_vars

(***************************************************************************)
(* Resource Stores: properties of the uploads                              *)
(***************************************************************************)
\* C28: the re-fetch a timer of an upload handler issues when it fires asks
\* for the page the cursor points to at that moment
DelayedRefetchFollowsCursor ==
    [][\A t \in uploadTimers :
          (t.kind = "refetch" /\ t \notin uploadTimers') =>
              \A r \in StoreIssued : r.op = "getOrders" /\ r.page = currentPage]_vars

\* C29: with no fetch of the orders in flight, pendingUploads is the number
\* of converted orders in the page held
PendingUploadsMatchesPage ==
    ~ FetchInFlight("getOrders") => pendingUploads = Converted(orders)
=============================================================================
